---- MODULE Spec2Model ----
(***************************************************************************)
(* FastAPI + Azure single-tenant auth demo: the settings and their         *)
(* computed fields (config.py), the auth scheme and its startup hook       *)
(* (auth/azure_auth.py), the application assembly with its CORS            *)
(* middleware (main.py) and the two routes (routers/public.py,             *)
(* routers/protected.py).                                                  *)
(*                                                                         *)
(* Strings the code concatenates (client id, scope description, scope      *)
(* name) are sequences of one-character strings, so that the f-string of   *)
(* SCOPE_NAME is a real concatenation.  Origins, messages and claim        *)
(* subjects are plain strings.                                             *)
(*                                                                         *)
(* The token validator is the fastapi_azure_auth library.  What the model  *)
(* takes from it is its interface: the dependency either returns a user    *)
(* object for a valid token that carries every required scope, or raises   *)
(* an HTTP error.  Which error status the library picks for which defect   *)
(* is not fixed by this repository and is left open (401 or 403).          *)
(***************************************************************************)
EXTENDS Integers, Sequences, FiniteSets, TLC

VARIABLES settings, scheme_scopes, route_scopes, middleware,
          app_state, openid_config, requests

vars == <<settings, scheme_scopes, route_scopes, middleware,
          app_state, openid_config, requests>>

\* Number of requests a run of the server receives.
MaxRequests == 2

---------------------------------------------------------------------------
(* config.py *)

\* Values of APP_CLIENT_ID the environment may supply ("" is the default).
ClientIds == { <<>>, <<"c">> }

\* Values of SCOPE_DESCRIPTION the environment may supply.
ScopeDescriptions == { <<>>, <<"u">> }

\* Values of BACKEND_CORS_ORIGINS the environment may supply.
CorsOriginLists ==
  { {}, {"http://localhost:8000"},
    {"http://localhost:8000", "http://a.example"}, {"*"} }

\* Mutant of SCOPE_NAME: the separator between client id and description lost.
SCOPE_NAME_NoSeparator(s) ==
  <<"a", "p", "i", ":", "/", "/">> \o s.APP_CLIENT_ID \o s.SCOPE_DESCRIPTION

\* f"api://{self.APP_CLIENT_ID}/{self.SCOPE_DESCRIPTION}"
SCOPE_NAME(s) ==
  <<"a", "p", "i", ":", "/", "/">> \o s.APP_CLIENT_ID \o <<"/">> \o s.SCOPE_DESCRIPTION

\* {self.SCOPE_NAME: self.SCOPE_DESCRIPTION}
SCOPES(s) == [k \in {SCOPE_NAME(s)} |-> s.SCOPE_DESCRIPTION]

\* settings = Settings(): the fields read from the environment.
Settings ==
  [APP_CLIENT_ID : ClientIds,
   SCOPE_DESCRIPTION : ScopeDescriptions,
   BACKEND_CORS_ORIGINS : CorsOriginLists]

---------------------------------------------------------------------------
(* Requests *)

NoToken == [kind |-> "none", claims |-> [sub |-> "", scp |-> {}]]

\* The bearer tokens a client may present, given the settings of the process.
Tokens(s) ==
  {NoToken}
  \cup [kind : {"malformed", "expired", "badsig"},
        claims : [sub : {"alice"}, scp : {{SCOPE_NAME(s)}}]]
  \cup [kind : {"valid"},
        claims : [sub : {"alice", "bob"}, scp : {{SCOPE_NAME(s)}}]]
  \cup [kind : {"valid"},
        claims : [sub : {"alice"}, scp : {{}, {s.SCOPE_DESCRIPTION}}]]

\* The Origin header of a preflight.
Origins == {"http://localhost:8000", "http://a.example", "http://evil.example"}

NoOrigin == "no-origin"
NoHeader == "no-header"
NoUser == [sub |-> "", scp |-> {}]
NoBody == [message |-> ""]

IdleRequest ==
  [pc |-> "idle", method |-> "", path |-> "", token |-> NoToken,
   origin |-> NoOrigin, checked |-> "no", user |-> NoUser,
   auth_error |-> 0, status |-> 0, body |-> NoBody, acao |-> NoHeader]

RequestIds == 1 .. MaxRequests

---------------------------------------------------------------------------
(* main.py: application assembly (module import) *)

\* Mutant of AddMiddleware: the middleware is installed with the configured
\* list even when the list is empty.
AddMiddleware_Always(s) ==
  [installed |-> TRUE, allow_origins |-> s.BACKEND_CORS_ORIGINS,
   allow_credentials |-> TRUE]

\* if settings.BACKEND_CORS_ORIGINS: app.add_middleware(CORSMiddleware, ...)
AddMiddleware(s) ==
  IF s.BACKEND_CORS_ORIGINS # {}
  THEN [installed |-> TRUE, allow_origins |-> s.BACKEND_CORS_ORIGINS,
        allow_credentials |-> TRUE]
  ELSE [installed |-> FALSE, allow_origins |-> {}, allow_credentials |-> FALSE]

\* Security(azure_scheme, scopes=[settings.SCOPE_NAME])
SecurityScopes(s) == {SCOPE_NAME(s)}

Init ==
  /\ settings \in Settings
  /\ scheme_scopes = SCOPES(settings)
  /\ route_scopes = SecurityScopes(settings)
  /\ middleware = AddMiddleware(settings)
  /\ app_state = "UNINITIALIZED"
  /\ openid_config = [loaded |-> FALSE, load_calls |-> 0]
  /\ requests = [r \in RequestIds |-> IdleRequest]

---------------------------------------------------------------------------
(* auth/azure_auth.py: startup hook *)

\* Mutant of azure_lifespan: the hook yields without loading the configuration.
azure_lifespan_NoLoad(fetch_ok) ==
  /\ app_state = "UNINITIALIZED"
  /\ app_state' = IF fetch_ok THEN "READY" ELSE "FAILED"
  /\ UNCHANGED <<settings, scheme_scopes, route_scopes, middleware,
                 openid_config, requests>>

\* Mutant of azure_lifespan: a failed load is swallowed and the hook yields.
azure_lifespan_Swallow(fetch_ok) ==
  /\ app_state = "UNINITIALIZED"
  /\ openid_config' = [loaded |-> fetch_ok,
                       load_calls |-> openid_config.load_calls + 1]
  /\ app_state' = "READY"
  /\ UNCHANGED <<settings, scheme_scopes, route_scopes, middleware, requests>>

\* await azure_scheme.openid_config.load_config(); yield
azure_lifespan(fetch_ok) ==
  /\ app_state = "UNINITIALIZED"
  /\ openid_config' = [loaded |-> fetch_ok,
                       load_calls |-> openid_config.load_calls + 1]
  /\ app_state' = IF fetch_ok THEN "READY" ELSE "FAILED"
  /\ UNCHANGED <<settings, scheme_scopes, route_scopes, middleware, requests>>

Startup == \E fetch_ok \in BOOLEAN : azure_lifespan(fetch_ok)

\* Process termination: the server stops accepting, lets the requests in
\* flight complete, and the lifespan context exits; nothing is cleaned up.
Shutdown ==
  /\ app_state = "READY"
  /\ \A r \in RequestIds : requests[r].pc \in {"idle", "done"}
  /\ app_state' = "SHUTTING_DOWN"
  /\ UNCHANGED <<settings, scheme_scopes, route_scopes, middleware,
                 openid_config, requests>>

---------------------------------------------------------------------------
(* main.py: the server accepts a connection once startup has completed *)

\* uvicorn.run("main:app", ...): requests are accepted after the lifespan
\* startup.  Request ids are handed out in order of arrival.
Receive(r) ==
  /\ app_state = "READY"
  /\ requests[r].pc = "idle"
  /\ IF r = 1 THEN TRUE ELSE requests[r - 1].pc # "idle"
  /\ \/ \E path \in {"/", "/protected"}, token \in Tokens(settings) :
          requests' = [requests EXCEPT ![r] =
            [@ EXCEPT !.pc = "received", !.method = "GET", !.path = path,
                      !.token = token]]
     \/ \E path \in {"/", "/protected"}, origin \in Origins :
          requests' = [requests EXCEPT ![r] =
            [@ EXCEPT !.pc = "received", !.method = "OPTIONS", !.path = path,
                      !.origin = origin]]
  /\ UNCHANGED <<settings, scheme_scopes, route_scopes, middleware,
                 app_state, openid_config>>

\* CORSMiddleware(allow_origins=[...], allow_credentials=True, ...): the
\* Access-Control-Allow-Origin header of the answer to a preflight.  The
\* entry "*" allows every origin; with credentials allowed the requesting
\* origin is named explicitly.
PreflightAllowOrigin(mw, origin) ==
  IF ~mw.installed THEN NoHeader
  ELSE IF "*" \in mw.allow_origins
       THEN (IF mw.allow_credentials THEN origin ELSE "*")
       ELSE IF origin \in mw.allow_origins THEN origin ELSE NoHeader

\* An OPTIONS preflight: answered by the CORS middleware when it is
\* installed (200, or 400 for a disallowed origin); otherwise it reaches the
\* router, which has no OPTIONS route (405).
Preflight(r) ==
  /\ requests[r].pc = "received"
  /\ requests[r].method = "OPTIONS"
  /\ LET acao == PreflightAllowOrigin(middleware, requests[r].origin)
         status == IF ~middleware.installed THEN 405
                   ELSE IF acao = NoHeader THEN 400 ELSE 200
     IN requests' = [requests EXCEPT ![r] =
          [@ EXCEPT !.pc = "done", !.status = status, !.acao = acao]]
  /\ UNCHANGED <<settings, scheme_scopes, route_scopes, middleware,
                 app_state, openid_config>>

---------------------------------------------------------------------------
(* routers/public.py *)

PublicBody == [message |-> "Hello, this is a public endpoint."]

\* Mutant of public_route: the route answers 401 unless a valid token is sent.
public_route_Gated(r) ==
  /\ requests[r].pc = "received"
  /\ requests[r].method = "GET"
  /\ requests[r].path = "/"
  /\ requests' = [requests EXCEPT ![r] =
       IF requests[r].token.kind = "valid"
       THEN [@ EXCEPT !.pc = "done", !.status = 200, !.body = PublicBody]
       ELSE [@ EXCEPT !.pc = "done", !.status = 401]]
  /\ UNCHANGED <<settings, scheme_scopes, route_scopes, middleware,
                 app_state, openid_config>>

\* @router.get("/") async def public_route()
public_route(r) ==
  /\ requests[r].pc = "received"
  /\ requests[r].method = "GET"
  /\ requests[r].path = "/"
  /\ requests' = [requests EXCEPT ![r] =
       [@ EXCEPT !.pc = "done", !.status = 200, !.body = PublicBody]]
  /\ UNCHANGED <<settings, scheme_scopes, route_scopes, middleware,
                 app_state, openid_config>>

---------------------------------------------------------------------------
(* routers/protected.py *)

\* The statuses the auth scheme's HTTP errors carry.
AuthErrors == {401, 403}

ErrorBody == [detail |-> "rejected"]

\* azure_scheme(request, security_scopes) returns a user: the token passes
\* the validator (signature, expiry, issuer, audience) and carries every
\* scope the route requires.
Accepts(token, required) ==
  /\ token.kind = "valid"
  /\ required \subseteq token.claims.scp

\* The user object the scheme builds from the token's decoded claims.
User(token) == token.claims

\* user.dict(): the user's fields as a mapping.
UserDict(user) == [f \in DOMAIN user |-> user[f]]

\* The dependency of protected_route, resolved before the handler is
\* called: user = Security(azure_scheme, scopes=[settings.SCOPE_NAME]).
\* When the scheme raises, the error is the response and the handler is
\* not called.
Authenticate(r) ==
  /\ requests[r].pc = "received"
  /\ requests[r].method = "GET"
  /\ requests[r].path = "/protected"
  /\ IF Accepts(requests[r].token, route_scopes)
     THEN requests' = [requests EXCEPT ![r] =
            [@ EXCEPT !.pc = "authorized", !.checked = "passed",
                      !.user = User(requests[r].token)]]
     ELSE \E e \in AuthErrors :
            requests' = [requests EXCEPT ![r] =
              [@ EXCEPT !.pc = "done", !.checked = "failed",
                        !.auth_error = e, !.status = e, !.body = ErrorBody]]
  /\ UNCHANGED <<settings, scheme_scopes, route_scopes, middleware,
                 app_state, openid_config>>

\* Mutant of protected_route: the route has no dependency on the auth scheme.
protected_route_Unguarded(r) ==
  /\ requests[r].pc \in {"received", "authorized"}
  /\ requests[r].method = "GET"
  /\ requests[r].path = "/protected"
  /\ requests' = [requests EXCEPT ![r] =
       [@ EXCEPT !.pc = "done", !.status = 200,
                 !.body = [message |-> "You are authenticated!",
                           user |-> UserDict(requests[r].user)]]]
  /\ UNCHANGED <<settings, scheme_scopes, route_scopes, middleware,
                 app_state, openid_config>>

\* Mutant of protected_route: the user is kept in one place shared by all
\* requests (here: the slot of the first request).
protected_route_SharedUser(r) ==
  /\ requests[r].pc = "authorized"
  /\ requests' = [requests EXCEPT ![r] =
       [@ EXCEPT !.pc = "done", !.status = 200,
                 !.body = [message |-> "You are authenticated!",
                           user |-> UserDict(requests[1].user)]]]
  /\ UNCHANGED <<settings, scheme_scopes, route_scopes, middleware,
                 app_state, openid_config>>

AuthenticatedBody(user) ==
  [message |-> "You are authenticated!", user |-> UserDict(user)]

\* async def protected_route(user=Security(...)): return {...}
protected_route(r) ==
  /\ requests[r].pc = "authorized"
  /\ requests' = [requests EXCEPT ![r] =
       [@ EXCEPT !.pc = "done", !.status = 200,
                 !.body = AuthenticatedBody(requests[r].user)]]
  /\ UNCHANGED <<settings, scheme_scopes, route_scopes, middleware,
                 app_state, openid_config>>

---------------------------------------------------------------------------

Next ==
  \/ Startup
  \/ Shutdown
  \/ \E r \in RequestIds : Receive(r)
  \/ \E r \in RequestIds : Preflight(r)
  \/ \E r \in RequestIds : public_route(r)
  \/ \E r \in RequestIds : Authenticate(r)
  \/ \E r \in RequestIds : protected_route(r)

Spec == Init /\ [][Next]_vars
---------------------------------------------------------------------------
(* Properties *)

IsProtected(q) == q.method = "GET" /\ q.path = "/protected"
IsPublic(q) == q.method = "GET" /\ q.path = "/"
IsPreflight(q) == q.method = "OPTIONS"

\* The handler body of protected_route has been entered for q.
HandlerEntered(q) ==
  /\ q.pc = "done"
  /\ q.status = 200
  /\ DOMAIN q.body = {"message", "user"}

\* C1: for every GET /protected the handler body runs only after the auth
\* scheme's check of that same request succeeded with the configured scope;
\* when the check fails the handler is never entered and the response is the
\* 401 or 403 the check produced, never the handler's 200 payload.
C1_HandlerOnlyAfterCheck ==
  \A r \in RequestIds :
    LET q == requests[r] IN
      IsProtected(q) =>
        /\ (q.pc = "authorized" \/ HandlerEntered(q)) =>
              /\ q.checked = "passed"
              /\ Accepts(q.token, {SCOPE_NAME(settings)})
        /\ q.pc = "done" =>
              /\ q.checked # "no"
              /\ q.checked = "failed" =>
                    /\ q.status \in {401, 403}
                    /\ q.status = q.auth_error
                    /\ ~HandlerEntered(q)
                    /\ q.body # AuthenticatedBody(q.user)

\* C1 witness: one request was rejected by the check and answered with its
\* error, another passed the check and was answered by the handler.
C1_Witness ==
  \E r1, r2 \in RequestIds :
    /\ IsProtected(requests[r1]) /\ requests[r1].pc = "done"
    /\ requests[r1].checked = "failed" /\ requests[r1].status = 403
    /\ IsProtected(requests[r2]) /\ HandlerEntered(requests[r2])

C5_LoadedOnceBeforeServing ==
  /\ [](/\ openid_config.load_calls <= 1
        /\ app_state \in {"READY", "SHUTTING_DOWN"} =>
              (openid_config.loaded /\ openid_config.load_calls = 1)
        /\ \A r \in RequestIds :
              requests[r].pc # "idle" =>
                (openid_config.loaded /\ openid_config.load_calls = 1))
  /\ [][(app_state # "READY" /\ app_state' = "READY") =>
          /\ app_state = "UNINITIALIZED"
          /\ openid_config'.loaded
          /\ openid_config'.load_calls = openid_config.load_calls + 1]_vars

\* C5 witness: a request has been answered after the single startup load.
C5_Witness ==
  /\ openid_config.load_calls = 1
  /\ \E r \in RequestIds : requests[r].pc = "done"

\* C6: when the metadata fetch of the startup hook errors, startup fails:
\* the application never becomes READY and no request is ever served.
C6_FailedFetchAbortsStartup ==
  /\ []((openid_config.load_calls > 0 /\ ~openid_config.loaded) =>
          /\ app_state = "FAILED"
          /\ \A r \in RequestIds : requests[r].pc = "idle")
  /\ [][app_state = "FAILED" => app_state' = "FAILED"]_vars

\* C6 witness: the fetch of the startup hook has failed.
C6_Witness ==
  /\ openid_config.load_calls = 1
  /\ ~openid_config.loaded
  /\ app_state = "FAILED"

Chars_api == <<"a", "p", "i", ":", "/", "/">>

\* C7: for every APP_CLIENT_ID C and SCOPE_DESCRIPTION D, the empty string
\* included, SCOPE_NAME is "api://" followed by C, "/" and D, and SCOPES is
\* the single-entry mapping from SCOPE_NAME to D; the scopes the auth scheme
\* and the route were given are these derived values.
C7_ScopesDerived ==
  LET C == settings.APP_CLIENT_ID
      D == settings.SCOPE_DESCRIPTION
      n == SCOPE_NAME(settings)
      m == SCOPES(settings)
  IN /\ Len(n) = 6 + Len(C) + 1 + Len(D)
     /\ SubSeq(n, 1, 6) = Chars_api
     /\ SubSeq(n, 7, 6 + Len(C)) = C
     /\ n[7 + Len(C)] = "/"
     /\ SubSeq(n, 8 + Len(C), Len(n)) = D
     /\ DOMAIN m = {n}
     /\ Cardinality(DOMAIN m) = 1
     /\ m[n] = D
     /\ scheme_scopes = m
     /\ route_scopes = {n}

\* C7 witness: a process configured with empty client id and description is
\* serving, its scope name being "api:///".
C7_Witness ==
  /\ settings.APP_CLIENT_ID = <<>>
  /\ settings.SCOPE_DESCRIPTION = <<>>
  /\ DOMAIN scheme_scopes = {<<"a", "p", "i", ":", "/", "/", "/">>}
  /\ app_state = "READY"

\* The state shared by all requests.
shared == <<settings, scheme_scopes, route_scopes, middleware,
            app_state, openid_config>>

\* C8: once the application is serving, GET / is answered 200 with exactly
\* {"message": "Hello, this is a public endpoint."} whatever token is sent,
\* and answering it changes no application state.
C8_PublicAlwaysHello ==
  /\ [](\A r \in RequestIds :
          LET q == requests[r] IN
            IsPublic(q) =>
              /\ q.pc = "received" => ENABLED public_route(r)
              /\ q.pc = "done" =>
                    /\ q.status = 200
                    /\ q.body = [message |-> "Hello, this is a public endpoint."])
  /\ [][\A r \in RequestIds :
          (IsPublic(requests[r]) /\ requests[r].pc = "received"
             /\ requests'[r].pc = "done") =>
            /\ UNCHANGED shared
            /\ \A o \in RequestIds \ {r} : requests'[o] = requests[o]]_vars

\* C8 witness: GET / has been answered for a request without a token, for one
\* with an invalid token and for one with a valid token.
C8_Witness ==
  /\ \E r \in RequestIds :
       IsPublic(requests[r]) /\ requests[r].pc = "done"
         /\ requests[r].token.kind \in {"none", "expired"}
  /\ \E r \in RequestIds :
       IsPublic(requests[r]) /\ requests[r].pc = "done"
         /\ requests[r].token.kind = "valid"

\* C9 as stated: a preflight from an origin in BACKEND_CORS_ORIGINS gets
\* Access-Control-Allow-Origin echoing the origin, one from an origin absent
\* from the list gets no such header, for every value of the list; with the
\* empty list the middleware is not installed.
C9_Original ==
  /\ settings.BACKEND_CORS_ORIGINS = {} => ~middleware.installed
  /\ \A r \in RequestIds :
       LET q == requests[r] IN
         (IsPreflight(q) /\ q.pc = "done") =>
           /\ q.origin \in settings.BACKEND_CORS_ORIGINS => q.acao = q.origin
           /\ q.origin \notin settings.BACKEND_CORS_ORIGINS => q.acao = NoHeader

\* C9 as amended: as stated when the list does not contain "*"; when it
\* does, a preflight from any origin gets the header echoing the origin.
C9_PreflightAllowList ==
  /\ settings.BACKEND_CORS_ORIGINS = {} <=> ~middleware.installed
  /\ \A r \in RequestIds :
       LET q == requests[r] IN
         (IsPreflight(q) /\ q.pc = "done") =>
           /\ q.origin \in settings.BACKEND_CORS_ORIGINS => q.acao = q.origin
           /\ (q.origin \notin settings.BACKEND_CORS_ORIGINS
                 /\ "*" \notin settings.BACKEND_CORS_ORIGINS) => q.acao = NoHeader
           /\ "*" \in settings.BACKEND_CORS_ORIGINS => q.acao = q.origin
           /\ ~middleware.installed => q.acao = NoHeader

\* C9 witness: with a list of two origins, a preflight from a listed origin
\* was answered with the header and one from an unlisted origin without it.
C9_Witness ==
  /\ Cardinality(settings.BACKEND_CORS_ORIGINS) = 2
  /\ \E r1, r2 \in RequestIds :
       /\ IsPreflight(requests[r1]) /\ requests[r1].pc = "done"
       /\ requests[r1].origin = "http://a.example"
       /\ requests[r1].acao = "http://a.example"
       /\ IsPreflight(requests[r2]) /\ requests[r2].pc = "done"
       /\ requests[r2].origin = "http://evil.example"
       /\ requests[r2].acao = NoHeader
====
